---- MODULE Spec2Model ----
(***************************************************************************)
(* A two-layer feed-forward network (package neural): construction,        *)
(* Activate, Train with L2 regularization, Save and LoadNetwork.           *)
(*                                                                         *)
(* float64 values are fixed-point integers: the integer n stands for the   *)
(* number n / One, and every product or quotient is truncated to that      *)
(* grid, as a float64 operation is rounded to its own.  Slices are         *)
(* references: a slice is an address into `heap`, so two slice headers     *)
(* holding one address share their storage.                                *)
(***************************************************************************)
EXTENDS Integers, Sequences, FiniteSets, TLC

\* ------------------------------------------------------------------ bounds
NumShapes == 6       \* argument triples NewNetwork is called with
NumSeeds == 2        \* seeds of the random source tried at construction
MaxTrains == 2       \* Train calls in one run of Spec
MaxTrainsHeld == 1   \* Train calls in one run of SpecCaller and SpecPersist

\* ------------------------------------------------------------- arithmetic
One == 256

Abs(x) == IF x < 0 THEN -x ELSE x

\* integer quotient truncated toward zero
TDiv(a, b) ==
  IF (a >= 0) = (b > 0) THEN Abs(a) \div Abs(b) ELSE -(Abs(a) \div Abs(b))

\* float64 product a * b
Mul(a, b) == TDiv(a * b, One)

\* float64 quotient a / b (b # 0)
Quot(a, b) == TDiv(a * One, b)

\* the argument range of the exponential: beyond it e^x overflows to +Inf
\* and e^-x underflows to 0
ExpMax == 4 * One

RECURSIVE ExpSeries(_, _, _)
ExpSeries(x, term, k) ==
  IF term = 0 THEN 0
  ELSE term + ExpSeries(x, TDiv(term * x, k * One), k + 1)

\* math.Pow(math.E, x) for -ExpMax <= x <= ExpMax
PowE(x) == IF x >= 0 THEN ExpSeries(x, One, 1) ELSE Quot(One, ExpSeries(-x, One, 1))

\* 1.0 / (1.0 + math.Pow(math.E, -sum))
Sigmoid(sum) ==
  IF sum < -ExpMax THEN 0
  ELSE IF sum > ExpMax THEN One
  ELSE Quot(One, One + PowE(-sum))

RECURSIVE Dot(_, _, _)
\* the inner loop of feedforward: sum of weight[j] * input[j] for j = 1..n
Dot(weight, input, n) ==
  IF n = 0 THEN 0 ELSE Dot(weight, input, n - 1) + Mul(weight[n], input[n])

Zeros(n) == [i \in 1..n |-> 0]

\* ------------------------------------------------------------------ layers
\* The slices of the network's two layers, by address.
Hidden == [Weight |-> "Hidden.Weight", Bias |-> "Hidden.Bias", value |-> "Hidden.value"]
Output == [Weight |-> "Output.Weight", Bias |-> "Output.Bias", value |-> "Output.value"]

NetAddrs == {Hidden.Weight, Hidden.Bias, Hidden.value,
             Output.Weight, Output.Bias, Output.value}
ParamAddrs == {Hidden.Weight, Hidden.Bias, Output.Weight, Output.Bias}

\* the storage the caller can hold Activate's results in
Slots == {1, 2}
ResultAddr(s) == IF s = 1 THEN "result1" ELSE "result2"
ResultAddrs == {ResultAddr(s) : s \in Slots}
Nil == "nil"

\* ---------------------------------------------------------- random source
\* math/rand seeded once: a linear congruential generator of full period.
RandMod == 16
RandNext(s) == (5 * s + 3) % RandMod

RECURSIVE RandAt(_, _)
\* the state of the source after k draws
RandAt(seed, k) == IF k = 0 THEN seed ELSE RandNext(RandAt(seed, k - 1))

\* rand.Float64()*2.0 - 1.0 on the k-th draw: a value in [-One, One)
randomWeight(seed, k) == TDiv(RandAt(seed, k) * 2 * One, RandMod) - One

\* a slip of newLayer: Bias made with one entry per input
newLayerBiasPerInput(inputs, nodes, seed, drawn) ==
  [i \in 1..inputs |-> randomWeight(seed, drawn + nodes * inputs + i)]

\* newLayer: Weight drawn row by row, then Bias, then initialize.
\* `drawn` is the number of draws made before this layer.
newLayerBias(inputs, nodes, seed, drawn) ==
  [i \in 1..nodes |-> randomWeight(seed, drawn + nodes * inputs + i)]

newLayer(inputs, nodes, seed, drawn) ==
  [Weight |-> [i \in 1..nodes |->
                 [j \in 1..inputs |-> randomWeight(seed, drawn + (i - 1) * inputs + j)]],
   Bias |-> newLayerBias(inputs, nodes, seed, drawn),
   value |-> Zeros(nodes)]

\* NewNetwork: the heap holding both layers, the caller's storage empty
NewNetwork(inputs, hiddens, outputs, seed) ==
  LET h == newLayer(inputs, hiddens, seed, 0)
      o == newLayer(hiddens, outputs, seed, hiddens * inputs + hiddens)
  IN  [a \in NetAddrs \cup ResultAddrs |->
         CASE a = Hidden.Weight -> h.Weight
           [] a = Hidden.Bias -> h.Bias
           [] a = Hidden.value -> h.value
           [] a = Output.Weight -> o.Weight
           [] a = Output.Bias -> o.Bias
           [] a = Output.value -> o.value
           [] OTHER -> << >>]

\* ------------------------------------------------------------- feedforward
\* a slip of feedforward: the sum starts from the node's last activation
NodeSumFromValue(h, layer, input, i) ==
  h[layer.value][i] + Dot(h[layer.Weight][i], input, Len(input))

\* sum := layer.Bias[i]; sum += layer.Weight[i][j] * input[j] for each j
NodeSum(h, layer, input, i) ==
  h[layer.Bias][i] + Dot(h[layer.Weight][i], input, Len(input))

RECURSIVE feedforwardFrom(_, _, _, _)
\* the loop of feedforward from node i on; an index out of range panics and
\* leaves what was written so far
feedforwardFrom(h, layer, input, i) ==
  IF i > Len(h[layer.value]) THEN [heap |-> h, panic |-> FALSE]
  ELSE IF \/ i > Len(h[layer.Bias])
          \/ i > Len(h[layer.Weight])
          \/ Len(input) > Len(h[layer.Weight][i])
       THEN [heap |-> h, panic |-> TRUE]
  ELSE feedforwardFrom(
         [h EXCEPT ![layer.value][i] = Sigmoid(NodeSum(h, layer, input, i))],
         layer, input, i + 1)

feedforward(h, layer, input) == feedforwardFrom(h, layer, input, 1)

\* Activate's two feedforward calls; hidden is the slice Hidden.value itself,
\* which Output.feedforward only reads
Forward(h, input) ==
  LET f1 == feedforward(h, Hidden, input)
  IN  IF f1.panic THEN f1 ELSE feedforward(f1.heap, Output, f1.heap[Hidden.value])

\* a slip of Activate: the Output layer's own slice is returned
ActivateResultShared(fresh) == Output.value

\* where Activate's returned slice lives: make() gives storage of its own
ActivateResult(fresh) == fresh

\* Activate, its result made at the unused address `fresh`
Activate(h, input, fresh) ==
  LET f == Forward(h, input)
      r == ActivateResult(fresh)
  IN  IF f.panic THEN [heap |-> f.heap, panic |-> TRUE, result |-> Nil]
      ELSE [heap |-> [f.heap EXCEPT ![fresh] = f.heap[Output.value]],
            panic |-> FALSE, result |-> r]

\* ----------------------------------------------------------- backpropagate
\* a slip of backpropagate: the residual is taken after the weight's update
backpropagateStepLate(st, layer, i, j, cost, input, rate) ==
  LET updated == st.heap[layer.Weight][i][j] + Mul(Mul(rate, cost), input[j])
  IN  [heap |-> [st.heap EXCEPT ![layer.Weight][i][j] = updated],
       residual |-> [st.residual EXCEPT ![j] = @ + Mul(cost, updated)]]

\* one pass of the inner loop body: residual[j] += cost * theta, then
\* weight[j] += rate * cost * input[j]
backpropagateStep(st, layer, i, j, cost, input, rate) ==
  LET theta == st.heap[layer.Weight][i][j]
  IN  [heap |-> [st.heap EXCEPT ![layer.Weight][i][j] = @ + Mul(Mul(rate, cost), input[j])],
       residual |-> [st.residual EXCEPT ![j] = @ + Mul(cost, theta)]]

RECURSIVE backpropagateRow(_, _, _, _, _, _, _)
backpropagateRow(st, layer, i, j, cost, input, rate) ==
  IF j > Len(st.heap[layer.Weight][i]) THEN st
  ELSE backpropagateRow(backpropagateStep(st, layer, i, j, cost, input, rate),
                        layer, i, j + 1, cost, input, rate)

\* cost := err[i] * layer.value[i] * (1.0 - layer.value[i])
NodeCost(h, layer, err, i) ==
  Mul(Mul(err[i], h[layer.value][i]), One - h[layer.value][i])

RECURSIVE backpropagateFrom(_, _, _, _, _, _)
backpropagateFrom(st, layer, input, err, rate, i) ==
  IF i > Len(st.heap[layer.Weight]) THEN st
  ELSE LET cost == NodeCost(st.heap, layer, err, i)
           row == backpropagateRow(st, layer, i, 1, cost, input, rate)
       IN  backpropagateFrom(
             [heap |-> [row.heap EXCEPT ![layer.Bias][i] = @ + Mul(rate, cost)],
              residual |-> row.residual],
             layer, input, err, rate, i + 1)

backpropagate(h, layer, input, err, rate) ==
  backpropagateFrom([heap |-> h, residual |-> Zeros(Len(h[layer.Weight][1]))],
                    layer, input, err, rate, 1)

\* ------------------------------------------------------------------- Train
Scaled(matrix, factor) ==
  [i \in 1..Len(matrix) |-> [j \in 1..Len(matrix[i]) |-> Mul(matrix[i][j], factor)]]

\* RegularizationGrads: theta1Grad and theta2Grad are the slice headers of
\* the layers' own Weight, and the scaling is written through them
RegularizationGrads(h, numInputs, lambda) ==
  LET lambdaOverM == Quot(lambda, numInputs * One)
      theta1Grad == Hidden.Weight
      theta2Grad == Output.Weight
      h1 == [h EXCEPT ![theta1Grad] = Scaled(h[theta1Grad], lambdaOverM)]
      h2 == [h1 EXCEPT ![theta2Grad] = Scaled(h1[theta2Grad], lambdaOverM)]
  IN  [heap |-> h2, theta1Grad |-> theta1Grad, theta2Grad |-> theta2Grad]

\* weight[j] -= thetaGrad[i][j]: each element is read through thetaGrad at
\* the moment its own weight is written
Subtracted(h, weightAddr, gradAddr) ==
  [i \in 1..Len(h[weightAddr]) |->
     [j \in 1..Len(h[weightAddr][i]) |-> h[weightAddr][i][j] - h[gradAddr][i][j]]]

SubtractGradients(h, theta1Grad, theta2Grad) ==
  LET h1 == [h EXCEPT ![Hidden.Weight] = Subtracted(h, Hidden.Weight, theta1Grad)]
  IN  [h1 EXCEPT ![Output.Weight] = Subtracted(h1, Output.Weight, theta2Grad)]

\* err[i] = expected[i] - net.Output.value[i]
OutputError(h, expected) ==
  [i \in 1..Len(h[Output.value]) |-> expected[i] - h[Output.value][i]]

\* Network.Train with regularization
Train(h, input, expected, rate, lambda) ==
  LET reg == RegularizationGrads(h, Len(input), lambda)
      err == OutputError(reg.heap, expected)
      out == backpropagate(reg.heap, Output, reg.heap[Hidden.value], err, rate)
      hid == backpropagate(out.heap, Hidden, input, out.residual, rate)
  IN  SubtractGradients(hid.heap, reg.theta1Grad, reg.theta2Grad)

\* Network.Train of neural/neural.go: backpropagation alone
TrainPlain(h, input, expected, rate) ==
  LET err == OutputError(h, expected)
      out == backpropagate(h, Output, h[Hidden.value], err, rate)
      hid == backpropagate(out.heap, Hidden, input, out.residual, rate)
  IN  hid.heap

\* ------------------------------------------------------- Save, LoadNetwork
\* a slip of the encoding: the sign is lost
FormatFloatUnsigned(x) == [neg |-> FALSE, digits |-> Abs(x)]

\* encoding/json writes a float64 as its sign and its digits
FormatFloat(x) == [neg |-> x < 0, digits |-> Abs(x)]
ParseFloat(t) == IF t.neg THEN -t.digits ELSE t.digits

\* the exported fields of a Layer; value is unexported and is not encoded
EncodeLayer(h, layer) ==
  [Weight |-> [i \in 1..Len(h[layer.Weight]) |->
                 [j \in 1..Len(h[layer.Weight][i]) |-> FormatFloat(h[layer.Weight][i][j])]],
   Bias |-> [i \in 1..Len(h[layer.Bias]) |-> FormatFloat(h[layer.Bias][i])]]

\* enc.Encode(net): the document Save writes
Encode(h) == [Hidden |-> EncodeLayer(h, Hidden), Output |-> EncodeLayer(h, Output)]

\* new(Layer) before anything is decoded into it, and the nil *Layer
NilLayer == [nil |-> TRUE, Weight |-> << >>, Bias |-> << >>, value |-> << >>]

\* a key the document lacks leaves its field nil
DecodeLayer(doc, key) ==
  IF key \notin DOMAIN doc THEN NilLayer
  ELSE [nil |-> FALSE,
        Weight |-> IF "Weight" \in DOMAIN doc[key]
                   THEN [i \in 1..Len(doc[key].Weight) |->
                           [j \in 1..Len(doc[key].Weight[i]) |->
                              ParseFloat(doc[key].Weight[i][j])]]
                   ELSE << >>,
        Bias |-> IF "Bias" \in DOMAIN doc[key]
                 THEN [i \in 1..Len(doc[key].Bias) |-> ParseFloat(doc[key].Bias[i])]
                 ELSE << >>,
        value |-> << >>]

\* dec.Decode(net): a reader that holds no well-formed document stores nothing
Decode(r) ==
  IF ~r.valid THEN [err |-> TRUE, Hidden |-> NilLayer, Output |-> NilLayer]
  ELSE [err |-> FALSE,
        Hidden |-> DecodeLayer(r.doc, "Hidden"),
        Output |-> DecodeLayer(r.doc, "Output")]

\* layer.value = make([]float64, len(layer.Weight))
initialize(layer) == [layer EXCEPT !.value = Zeros(Len(layer.Weight))]

NoNetwork == [Hidden |-> NilLayer, Output |-> NilLayer]

\* LoadNetwork: Decode's error is dropped, and initialize dereferences each
\* layer pointer, nil or not
LoadNetwork(r) ==
  LET d == Decode(r)
  IN  IF d.Hidden.nil \/ d.Output.nil
      THEN [outcome |-> "panic", net |-> NoNetwork]
      ELSE [outcome |-> "returned",
            net |-> [Hidden |-> initialize(d.Hidden), Output |-> initialize(d.Output)]]

\* the heap of a loaded network, for calling Activate on it
HeapOf(net) ==
  [a \in NetAddrs \cup ResultAddrs |->
     CASE a = Hidden.Weight -> net.Hidden.Weight
       [] a = Hidden.Bias -> net.Hidden.Bias
       [] a = Hidden.value -> net.Hidden.value
       [] a = Output.Weight -> net.Output.Weight
       [] a = Output.Bias -> net.Output.Bias
       [] a = Output.value -> net.Output.value
       [] OTHER -> << >>]

\* ------------------------------------------------- what the callers pass in
Without(rec, key) == [k \in DOMAIN rec \ {key} |-> rec[k]]

EmptyStream == [valid |-> FALSE, doc |-> << >>]

\* what a reader handed to LoadNetwork can hold, given what Save last wrote
ReaderKinds == {"intact", "syntax error", "no Hidden", "no Output",
                "no Weight", "empty Weight", "short Bias"}

Reader(written, kind) ==
  IF ~written.valid \/ kind = "syntax error" THEN EmptyStream
  ELSE [valid |-> TRUE,
        doc |-> CASE kind = "intact" -> written.doc
                  [] kind = "no Hidden" -> Without(written.doc, "Hidden")
                  [] kind = "no Output" -> Without(written.doc, "Output")
                  [] kind = "no Weight" ->
                       [written.doc EXCEPT !.Hidden = Without(@, "Weight")]
                  [] kind = "empty Weight" ->
                       [written.doc EXCEPT !.Output.Weight = << >>]
                  [] kind = "short Bias" ->
                       [written.doc EXCEPT !.Hidden.Bias = SubSeq(@, 1, Len(@) - 1)]]

\* input and expected vectors: all ones, or zeros and ones alternating
Vectors(n) ==
  {[j \in 1..n |-> One], [j \in 1..n |-> IF j % 2 = 1 THEN 0 ELSE One]}

\* the lengths Activate is called with: the layer's width and one off it
InputLengths(inputs) == {inputs - 1, inputs, inputs + 1}

Rates == {One \div 2}
Lambdas == {0, One}

\* what the caller writes into a vector Activate returned
Written == {0}

\* --------------------------------------------------------------- the state
VARIABLES
  heap,       \* slice storage by address: the network's and the caller's
  plain,      \* the same for the network run by neural/neural.go's Train
  held,       \* the caller's variables holding Activate's results, by slot
  dims,       \* the arguments NewNetwork was called with
  activated,  \* the input both value slices were last computed from, if any
  trains,     \* Train calls made
  call,       \* the last call: operation, arguments, outcome
  stream,     \* what Save last wrote
  loaded      \* what LoadNetwork last did

vars == <<heap, plain, held, dims, activated, trains, call, stream, loaded>>

Call(op, input, expected, rate, lambda, outcome, slot) ==
  [op |-> op, input |-> input, expected |-> expected, rate |-> rate,
   lambda |-> lambda, outcome |-> outcome, slot |-> slot]

NotActivated == [valid |-> FALSE, input |-> << >>]

\* the (inputs, hiddens, outputs) NewNetwork is called with
Shapes == << <<1, 1, 1>>, <<2, 1, 1>>, <<1, 2, 1>>, <<2, 2, 2>>, <<1, 1, 2>>,
             <<2, 2, 1>>, <<3, 2, 1>>, <<2, 3, 2>>, <<1, 2, 3>>, <<3, 3, 3>> >>

\* the seeds the random source starts from
Seeds == <<8, 11, 10, 5, 12>>

Init ==
  \E k \in 1..NumShapes, n \in 1..NumSeeds :
    LET inputs == Shapes[k][1]
        seed == Seeds[n]
        hiddens == Shapes[k][2]
        outputs == Shapes[k][3]
    IN  /\ k <= Len(Shapes)
        /\ n <= Len(Seeds)
        /\ heap = NewNetwork(inputs, hiddens, outputs, seed)
        /\ plain = NewNetwork(inputs, hiddens, outputs, seed)
        /\ held = [s \in Slots |-> Nil]
        /\ dims = [inputs |-> inputs, hiddens |-> hiddens, outputs |-> outputs]
        /\ activated = NotActivated
        /\ trains = 0
        /\ call = Call("NewNetwork", << >>, << >>, 0, 0, "ok", 0)
        /\ stream = EmptyStream
        /\ loaded = [reader |-> "none", outcome |-> "none", net |-> NoNetwork]

\* result := net.Activate(input) with an input of a length in `lengths`, the
\* result kept in one of the caller's `slots`
DoActivate(slots, lengths) ==
  \E n \in lengths, s \in slots :
    /\ n >= 0
    /\ \E input \in Vectors(n) :
         LET a == Activate(heap, input, ResultAddr(s))
         IN  /\ heap' = a.heap
             /\ plain' = Forward(plain, input).heap
             /\ held' = IF a.panic THEN held ELSE [held EXCEPT ![s] = a.result]
             /\ activated' = IF a.panic THEN activated
                             ELSE [valid |-> n = dims.inputs, input |-> input]
             /\ call' = Call("Activate", input, << >>, 0, 0,
                             IF a.panic THEN "panic" ELSE "ok", s)
    /\ UNCHANGED <<dims, trains, stream, loaded>>

\* net.Train(input, expected, rate, lambda), called as documented: after
\* Activate(input), with the same input and an expected vector of the
\* output's size
DoTrain(limit, lambdas) ==
  \E expected \in Vectors(dims.outputs), rate \in Rates, lambda \in lambdas :
    /\ trains < limit
    /\ activated.valid
    /\ heap' = Train(heap, activated.input, expected, rate, lambda)
    /\ plain' = TrainPlain(plain, activated.input, expected, rate)
    /\ activated' = NotActivated
    /\ trains' = trains + 1
    /\ call' = Call("Train", activated.input, expected, rate, lambda, "ok", 0)
    /\ UNCHANGED <<held, dims, stream, loaded>>

\* the caller writes into a vector it got from Activate
DoWrite ==
  \E s \in Slots, v \in Written :
    /\ held[s] # Nil
    /\ \E k \in 1..Len(heap[held[s]]) :
         /\ heap[held[s]][k] # v
         /\ heap' = [heap EXCEPT ![held[s]][k] = v]
    /\ call' = Call("write", << >>, << >>, 0, 0, "ok", s)
    /\ UNCHANGED <<plain, held, dims, activated, trains, stream, loaded>>

\* net.Save(w) on a writer of its own
DoSave ==
  /\ stream' = [valid |-> TRUE, doc |-> Encode(heap)]
  /\ call' = Call("Save", << >>, << >>, 0, 0, "ok", 0)
  /\ UNCHANGED <<heap, plain, held, dims, activated, trains, loaded>>

\* LoadNetwork(r)
DoLoad ==
  \E kind \in ReaderKinds :
    LET l == LoadNetwork(Reader(stream, kind))
    IN  /\ loaded' = [reader |-> IF stream.valid THEN kind ELSE "syntax error",
                      outcome |-> l.outcome, net |-> l.net]
        /\ call' = Call("LoadNetwork", << >>, << >>, 0, 0, l.outcome, 0)
        /\ UNCHANGED <<heap, plain, held, dims, activated, trains, stream>>

\* Activate with inputs of every length, Train with and without
\* regularization
ActivateAnyLength == DoActivate({1}, InputLengths(dims.inputs))
TrainRepeated == DoTrain(MaxTrains, Lambdas)
Next == ActivateAnyLength \/ TrainRepeated
Spec == Init /\ [][Next]_vars

\* a caller that keeps two results and writes into them, and trains with
\* one regularization strength
ActivateKept == DoActivate(Slots, {dims.inputs})
TrainOnce == DoTrain(MaxTrainsHeld, {One})
NextCaller == ActivateKept \/ TrainOnce \/ DoWrite
SpecCaller == Init /\ [][NextCaller]_vars

\* a caller that saves and loads the network
ActivateFit == DoActivate({1}, {dims.inputs})
NextPersist == ActivateFit \/ TrainOnce \/ DoSave \/ DoLoad
SpecPersist == Init /\ [][NextPersist]_vars

\* ------------------------------------------------- the claims' vocabulary
\* the delta of a node: error times the sigmoid's derivative at activation a
Delta(e, a) == Mul(Mul(e, a), One - a)

RECURSIVE WeightedSum(_, _, _, _)
\* sum over nodes 1..n of delta[i] * W[i][j]
WeightedSum(delta, W, j, n) ==
  IF n = 0 THEN 0 ELSE WeightedSum(delta, W, j, n - 1) + Mul(delta[n], W[n][j])

\* the residual over the weights W as given
EntryResidual(delta, W) == [j \in 1..Len(W[1]) |-> WeightedSum(delta, W, j, Len(W))]

\* W[i][j] + rate * delta[i] * x[j]
Stepped(W, delta, x, rate) ==
  [i \in 1..Len(W) |-> [j \in 1..Len(W[i]) |-> W[i][j] + Mul(Mul(rate, delta[i]), x[j])]]

\* W[i][j] + rate * delta[i] * x[j] - W[i][j] * (lambda / m)
Decayed(W, delta, x, rate, lambda, m) ==
  [i \in 1..Len(W) |->
     [j \in 1..Len(W[i]) |->
        W[i][j] + Mul(Mul(rate, delta[i]), x[j]) - Mul(W[i][j], Quot(lambda, m * One))]]

\* the deltas backpropagation computes over the network h as it stands
OutputDelta(h, expected) ==
  [i \in 1..Len(h[Output.value]) |->
     Delta(expected[i] - h[Output.value][i], h[Output.value][i])]

HiddenDelta(h, expected) ==
  LET residual == EntryResidual(OutputDelta(h, expected), h[Output.Weight])
  IN  [i \in 1..Len(h[Hidden.value]) |-> Delta(residual[i], h[Hidden.value][i])]

LayerChanged(layer) ==
  heap'[layer.Weight] # heap[layer.Weight] \/ heap'[layer.Bias] # heap[layer.Bias]

\* a Train step that follows Activate of the same input
TrainAfterActivate == activated.valid /\ call'.op = "Train"

\* ---------------------------------------------------------------- claims
\* C1: Train after Activate(input) leaves every weight of both layers at
\* w0 + rate*cost_i*x_j - w0*(lambda/m), with w0 the weight at entry and
\* cost_i the delta backpropagation computes over the entry weights.
C1_TrainDecaysEntryWeights ==
  [][TrainAfterActivate =>
       /\ heap'[Output.Weight] =
            Decayed(heap[Output.Weight], OutputDelta(heap, call'.expected),
                    heap[Hidden.value], call'.rate, call'.lambda, Len(call'.input))
       /\ heap'[Hidden.Weight] =
            Decayed(heap[Hidden.Weight], HiddenDelta(heap, call'.expected),
                    call'.input, call'.rate, call'.lambda, Len(call'.input))]_vars

\* C2: Train after Activate(input), with a rate other than zero and an error
\* vector that is not all zero, changes a weight or a bias in the Hidden
\* layer and a weight or a bias in the Output layer.
C2_TrainChangesBothLayers ==
  [][(/\ TrainAfterActivate
      /\ call'.rate # 0
      /\ \E i \in 1..Len(heap[Output.value]) : call'.expected[i] # heap[Output.value][i])
     => LayerChanged(Hidden) /\ LayerChanged(Output)]_vars

\* C3: Activate with an input whose length is not the Hidden layer's input
\* width fails, too short or too long, and leaves the network's activations,
\* weights and biases as they were.
C3_ActivateRejectsWrongLength ==
  [][(call'.op = "Activate" /\ Len(call'.input) # dims.inputs)
     => /\ call'.outcome # "ok"
        /\ \A a \in NetAddrs : heap'[a] = heap[a]]_vars

\* C4: LoadNetwork on a corrupt or incomplete record ends in an error and
\* returns no network.
C4_LoadRejectsCorruptRecord ==
  (loaded.reader \notin {"none", "intact"}) => loaded.outcome # "returned"

\* C5: LoadNetwork on what Save wrote of the network as it stands returns a
\* network with the same weights and biases in both layers, its activations
\* zero vectors of each layer's node count, and Activate gives on it what it
\* gives on the saved network for every input of the right width.
C5_SaveLoadRoundTrip ==
  [][(/\ call'.op = "LoadNetwork"
      /\ loaded'.reader = "intact"
      /\ stream.valid
      /\ stream.doc = Encode(heap))
     => /\ loaded'.outcome = "returned"
        /\ loaded'.net.Hidden.Weight = heap[Hidden.Weight]
        /\ loaded'.net.Hidden.Bias = heap[Hidden.Bias]
        /\ loaded'.net.Output.Weight = heap[Output.Weight]
        /\ loaded'.net.Output.Bias = heap[Output.Bias]
        /\ loaded'.net.Hidden.value = Zeros(dims.hiddens)
        /\ loaded'.net.Output.value = Zeros(dims.outputs)
        /\ \A x \in Vectors(dims.inputs) :
             LET onLoaded == Activate(HeapOf(loaded'.net), x, ResultAddr(1))
                 onSaved == Activate(heap, x, ResultAddr(1))
             IN  /\ ~onLoaded.panic
                 /\ ~onSaved.panic
                 /\ onLoaded.heap[onLoaded.result] = onSaved.heap[onSaved.result]]_vars

\* the saved network is a trained one with a negative parameter, saved while
\* its activation slices held the last Activate's values
C5_Witness ==
  /\ call.op = "LoadNetwork"
  /\ loaded.reader = "intact"
  /\ loaded.outcome = "returned"
  /\ stream.valid
  /\ stream.doc = Encode(heap)
  /\ trains > 0
  /\ heap[Output.value] # Zeros(dims.outputs)
  /\ \E i \in 1..dims.hiddens : heap[Hidden.Bias][i] < 0

\* C6: the vector Activate returns shares no storage with the network: a
\* write into it leaves the network's activations, weights and biases as they
\* were, and Activate or Train leaves a vector returned earlier as it was.
C6_ResultIsACopy ==
  [][/\ (call'.op = "Activate" /\ call'.outcome = "ok")
          => held'[call'.slot] \notin NetAddrs
     /\ call'.op = "write" => \A a \in NetAddrs : heap'[a] = heap[a]
     /\ call'.op \in {"Activate", "Train"}
          => \A s \in Slots :
               (held[s] # Nil /\ (call'.op = "Activate" => s # call'.slot))
                 => (held'[s] = held[s] /\ heap'[held[s]] = heap[held[s]])]_vars

\* the caller holds two results, wrote into one, and the network has since
\* been activated again
C6_Witness ==
  /\ call.op = "Activate"
  /\ call.outcome = "ok"
  /\ \A s \in Slots : held[s] # Nil
  /\ \E s \in Slots : s # call.slot /\ \E k \in 1..Len(heap[held[s]]) :
       heap[held[s]][k] = 0
  /\ heap[held[call.slot]] = heap[Output.value]

\* C7: Activate changes no weight and no bias, and Activate(x) returns the
\* same vector whether or not another Activate ran before it, whatever the
\* activation slices held.
C7_ActivateDeterministic ==
  \A x \in Vectors(dims.inputs), y \in Vectors(dims.inputs) :
    LET first == Activate(heap, x, ResultAddr(1))
        between == Activate(first.heap, y, ResultAddr(2))
        second == Activate(between.heap, x, ResultAddr(2))
    IN  /\ ~first.panic /\ ~second.panic
        /\ second.heap[second.result] = first.heap[first.result]
        /\ \A a \in ParamAddrs : first.heap[a] = heap[a] /\ second.heap[a] = heap[a]

\* a trained network whose activation slices hold the values of an input
C7_Witness ==
  /\ call.op = "Activate"
  /\ call.outcome = "ok"
  /\ trains > 0
  /\ \E i \in 1..dims.outputs : heap[Output.value][i] \notin {0, One}
  /\ \E x \in Vectors(dims.inputs) : x # call.input

\* C8: each layer has as many biases and activations as weight rows, every
\* Hidden row is `inputs` long, every Output row is `hiddens` long, and the
\* counts are those NewNetwork was called with.
C8_ShapeInvariant ==
  /\ Len(heap[Hidden.Weight]) = dims.hiddens
  /\ Len(heap[Hidden.Bias]) = dims.hiddens
  /\ Len(heap[Hidden.value]) = dims.hiddens
  /\ \A i \in 1..dims.hiddens : Len(heap[Hidden.Weight][i]) = dims.inputs
  /\ Len(heap[Output.Weight]) = dims.outputs
  /\ Len(heap[Output.Bias]) = dims.outputs
  /\ Len(heap[Output.value]) = dims.outputs
  /\ \A i \in 1..dims.outputs : Len(heap[Output.Weight][i]) = dims.hiddens

\* a network whose Hidden layer is wider or narrower than its input and its
\* output, after its last Train
C8_Witness ==
  /\ call.op = "Train"
  /\ trains = MaxTrains
  /\ dims.inputs # dims.hiddens
  /\ dims.hiddens # dims.outputs

\* the layers backpropagate runs on, with the width of each one's input
LayersOf(h) ==
  {[heap |-> h, layer |-> Hidden, width |-> dims.inputs],
   [heap |-> h, layer |-> Output, width |-> dims.hiddens]}

\* C9: backpropagate returns residual[j] = sum over nodes i of
\* cost_i * W[i][j] with W the weights at entry, and leaves
\* W[i][j] + rate * cost_i * input[j] in the weights and bias[i] + rate * cost_i
\* in the biases.
C9_ResidualUsesEntryWeights ==
  \A l \in LayersOf(heap) \cup LayersOf(plain) :
    \A input \in Vectors(l.width), err \in Vectors(Len(l.heap[l.layer.value])),
       rate \in Rates :
      LET W == l.heap[l.layer.Weight]
          delta == [i \in 1..Len(W) |-> Delta(err[i], l.heap[l.layer.value][i])]
          bp == backpropagate(l.heap, l.layer, input, err, rate)
      IN  /\ bp.residual = EntryResidual(delta, W)
          /\ bp.heap[l.layer.Weight] = Stepped(W, delta, input, rate)
          /\ bp.heap[l.layer.Bias] =
               [i \in 1..Len(W) |-> l.heap[l.layer.Bias][i] + Mul(rate, delta[i])]

\* after a Train and an Activate, backpropagation over the Output layer
\* moves a weight and returns a residual that is not zero
C9_Witness ==
  /\ activated.valid
  /\ trains > 0
  /\ \E err \in Vectors(dims.outputs), rate \in Rates :
       LET bp == backpropagate(plain, Output, plain[Hidden.value], err, rate)
       IN  /\ bp.residual # Zeros(dims.hiddens)
           /\ bp.heap[Output.Weight] # plain[Output.Weight]

\* C10: with lambda = 0, Train with regularization and Train without it,
\* started from the same weights, biases and activations and given the same
\* arguments, leave the same weights and biases in both layers.
C10_ZeroLambdaIsPlainTrain ==
  [][(/\ \A a \in NetAddrs : heap[a] = plain[a]
      /\ TrainAfterActivate
      /\ call'.lambda = 0)
     => \A a \in ParamAddrs : heap'[a] = plain'[a]]_vars

====
